---- MODULE Spec2Model ----
(***************************************************************************)
(* Model of epub-to-azw-v1.0.py: the filename helpers, the interactive     *)
(* Source Importer (ask_for_source_and_copy), the top-level entry block    *)
(* and the Batch Runner (main).  File names are sequences of one-character *)
(* strings, so that split / join / lower are computed as Python does.      *)
(***************************************************************************)
EXTENDS Integers, Sequences, FiniteSets, TLC

\* ------------------------------------------------------------------------
\* Bounds of the model
\* ------------------------------------------------------------------------

\* longest stem of a generated file name (pure-function specification)
MaxStem == 3
\* most files the input directory holds
MaxInput == 2
\* most files in the directory the user names to the importer
MaxSource == 2
\* most files in the output directory before the first run
MaxOutput == 1
\* most iterations of the importer's prompt loop in one call
MaxAttempts == 2

\* ------------------------------------------------------------------------
\* Strings
\* ------------------------------------------------------------------------

Dot == <<".">>

EPUB == <<"e", "p", "u", "b">>

EPUB_UPPER == <<"E", "P", "U", "B">>

AZW3 == <<".", "a", "z", "w", "3">>

Range(s) == {s[i] : i \in 1..Len(s)}

Perms(S) == {s \in [1..Cardinality(S) -> S] : \A i, j \in 1..Cardinality(S) : s[i] = s[j] => i = j}

\* str.lower() on one character
LowerChar(c) ==
    CASE c = "A" -> "a"
      [] c = "B" -> "b"
      [] c = "E" -> "e"
      [] c = "P" -> "p"
      [] c = "U" -> "u"
      [] OTHER -> c

lower(s) == [i \in 1..Len(s) |-> LowerChar(s[i])]

\* str.split("."): the list of the segments between dots ("" gives [""])
RECURSIVE split(_)
split(s) ==
    IF s = <<>> THEN << <<>> >>
    ELSE LET rest == split(Tail(s))
         IN  IF Head(s) = "." THEN << <<>> >> \o rest
             ELSE << <<Head(s)>> \o Head(rest) >> \o Tail(rest)

\* ".".join(list)
RECURSIVE join(_)
join(parts) ==
    IF parts = <<>> THEN <<>>
    ELSE IF Len(parts) = 1 THEN parts[1]
    ELSE parts[1] \o Dot \o join(Tail(parts))

\* a plausible slip: f.split(".")[0] instead of ".".join(f[0:-1])
get_final_filename_first(f) == split(f)[1] \o AZW3

get_final_filename(f) ==
    LET parts == split(f)
        filename == join(SubSeq(parts, 1, Len(parts) - 1))
    IN  filename \o AZW3

get_file_extension(f) == lower(split(f)[Len(split(f))])

\* glob.glob(join(source_path, "*." + ext)) on a POSIX system, for one
\* directory entry: fnmatch is case-sensitive there, "*" matches any run of
\* characters, and glob leaves out names that start with a dot.
glob_match(name, ext) ==
    /\ Len(name) >= Len(ext) + 1
    /\ name[1] # "."
    /\ SubSeq(name, Len(name) - Len(ext), Len(name)) = Dot \o ext


\* ------------------------------------------------------------------------
\* The file names the model draws directories from
\* ------------------------------------------------------------------------

A_EPUB == <<"a">> \o Dot \o EPUB

B_EPUB == <<"b">> \o Dot \o EPUB

A_EPUB_UPPER == <<"a">> \o Dot \o EPUB_UPPER

C_EPUB_MIXED == <<"c", ".", "E", "p", "u", "b">>

N_TXT == <<"n", ".", "t", "x", "t">>

FileNames == {A_EPUB, B_EPUB, A_EPUB_UPPER, C_EPUB_MIXED, N_TXT}

OutputNames == {get_final_filename(f) : f \in {A_EPUB, B_EPUB, C_EPUB_MIXED}}

AtMost(S, n) == {T \in SUBSET S : Cardinality(T) <= n}

\* generated names of the pure-function specification: every stem over
\* {".", "a"} up to MaxStem characters, followed by one of the suffixes
RECURSIVE Stems(_)
Stems(n) ==
    IF n = 0 THEN {<<>>}
    ELSE LET shorter == Stems(n - 1)
         IN  shorter \cup {s \o <<c>> : s \in shorter, c \in {".", "a"}}

Suffixes ==
    {<<>>, EPUB, Dot \o EPUB, Dot \o EPUB_UPPER, <<".", "E", "p", "u", "b">>,
     <<".", "t", "x", "t">>, Dot}

GenNames == {s \o x : s \in Stems(MaxStem), x \in Suffixes}

\* ------------------------------------------------------------------------
\* State
\* ------------------------------------------------------------------------

VARIABLES
    fn,              \* pure-function specification: [f, op, res]
    pc,              \* position of the process
    run,             \* which run of the program this is (1, 2, ...)
    prev,            \* what the previous run ended with
    exitCode,        \* exit status of the process, -1 while it runs
    probe,           \* result of the last check_ebook_convert()
    display,         \* state of the conversion-phase display
    inputDir,        \* INPUT_DIR: file name -> contents
    outputDir,       \* OUTPUT_DIR: set of file names
    attempts,        \* iterations of the importer's while-loop so far
    input_before,    \* INPUT_DIR as it was when the importer was called
    source_dir,      \* names in the directory the user entered
    found_files,     \* the importer's epub_files
    copy_pos,        \* how many of found_files the copy loop has taken
    copied,          \* importer counters
    copy_skipped,
    copy_failed,
    import_ret,      \* return value of ask_for_source_and_copy
    listed,          \* listdir() has been called
    epub_files,      \* main's epub_files
    converted_files, \* main's converted_files (only membership is ever asked)
    total_files,
    visited,         \* the files the for-loop has taken, in order
    processed,
    successful,
    skipped,
    failed,
    calls,           \* converter invocations of this run, in order
    log_lines        \* add_log's buffer

fsVars == <<inputDir, outputDir>>

importVars == <<attempts, input_before, source_dir, found_files, copy_pos, copied, copy_skipped, copy_failed>>

batchVars == <<listed, epub_files, converted_files, total_files, visited, processed, successful, skipped, failed, calls, log_lines>>

vars == <<fn, pc, run, prev, exitCode, probe, display, import_ret, fsVars, importVars, batchVars>>

FnIdle == [f |-> <<>>, op |-> "none", res |-> <<>>]

NoPrev == [display |-> "none", eligible |-> {}, successful |-> 0, failed |-> 0]

\* the state of a process that has just been started
Fresh ==
    /\ pc = "start"
    /\ exitCode = -1
    /\ probe = "none"
    /\ display = "Idle"
    /\ import_ret = "none"
    /\ attempts = 0
    /\ input_before = <<>>
    /\ source_dir = {}
    /\ found_files = <<>>
    /\ copy_pos = 0
    /\ copied = 0
    /\ copy_skipped = 0
    /\ copy_failed = 0
    /\ listed = FALSE
    /\ epub_files = <<>>
    /\ converted_files = {}
    /\ total_files = 0
    /\ visited = <<>>
    /\ processed = 0
    /\ successful = 0
    /\ skipped = 0
    /\ failed = 0
    /\ calls = <<>>
    /\ log_lines = <<>>

Init ==
    /\ fn = FnIdle
    /\ run = 1
    /\ prev = NoPrev
    /\ \E names \in AtMost(FileNames, MaxInput) : inputDir = [n \in names |-> "old"]
    /\ outputDir \in AtMost(OutputNames, MaxOutput)
    /\ Fresh


\* ------------------------------------------------------------------------
\* Top-level entry block and check_ebook_convert
\* ------------------------------------------------------------------------

\* the importer's locals go out of scope when it returns
ImporterLocalsCleared ==
    /\ attempts' = 0
    /\ source_dir' = {}
    /\ found_files' = <<>>
    /\ copy_pos' = 0
    /\ copied' = 0
    /\ copy_skipped' = 0
    /\ copy_failed' = 0
    /\ UNCHANGED input_before

\* ask_for_source_and_copy returns ret to the entry block: False prints
\* "Conversion cancelled." and exit(0), True goes on to curses.wrapper(main)
ImporterReturns(ret) ==
    /\ import_ret' = ret
    /\ ImporterLocalsCleared
    /\ IF ret = "True"
       THEN pc' = "main" /\ UNCHANGED exitCode
       ELSE pc' = "exit" /\ exitCode' = 0

\* the user answers a "Try again? (y/n)" prompt
AnswerRetry(retry) ==
    IF retry = "y"
    THEN /\ attempts + 1 < MaxAttempts
         /\ attempts' = attempts + 1
         /\ pc' = "ask"
         /\ source_dir' = {}
         /\ found_files' = <<>>
         /\ UNCHANGED <<input_before, copy_pos, copied, copy_skipped, copy_failed, import_ret, exitCode>>
    ELSE ImporterReturns("False")

\* entry block: the probe fails, exit(1)
StartToolMissing ==
    /\ pc = "start"
    /\ probe' = "missing"
    /\ pc' = "exit"
    /\ exitCode' = 1
    /\ UNCHANGED <<fn, run, prev, display, import_ret, fsVars, importVars, batchVars>>

\* entry block: the probe succeeds, the importer is called
StartToolFound ==
    /\ pc = "start"
    /\ probe' = "ok"
    /\ pc' = "ask"
    /\ input_before' = inputDir
    /\ UNCHANGED <<fn, run, prev, exitCode, display, import_ret, fsVars, batchVars>>
    /\ UNCHANGED <<attempts, source_dir, found_files, copy_pos, copied, copy_skipped, copy_failed>>

\* ------------------------------------------------------------------------
\* ask_for_source_and_copy
\* ------------------------------------------------------------------------

\* empty input: skip copying
AskEmpty ==
    /\ pc = "ask"
    /\ ImporterReturns("True")
    /\ UNCHANGED <<fn, run, prev, probe, display, fsVars, batchVars>>

\* the path does not exist
AskMissing(retry) ==
    /\ pc = "ask"
    /\ AnswerRetry(retry)
    /\ UNCHANGED <<fn, run, prev, probe, display, fsVars, batchVars>>

\* the path exists and is not a directory
AskNotDir(retry) ==
    /\ pc = "ask"
    /\ AnswerRetry(retry)
    /\ UNCHANGED <<fn, run, prev, probe, display, fsVars, batchVars>>

\* the two glob calls over the directory the user named
AskScan(dir, lower_order, upper_order) ==
    /\ pc = "ask"
    /\ Cardinality(DOMAIN inputDir \cup dir) <= MaxInput
    /\ lower_order \in Perms({n \in dir : glob_match(n, EPUB)})
    /\ upper_order \in Perms({n \in dir : glob_match(n, EPUB_UPPER)})
    /\ source_dir' = dir
    /\ found_files' = lower_order \o upper_order
    /\ pc' = "scanned"
    /\ UNCHANGED <<fn, run, prev, exitCode, probe, display, import_ret, fsVars, batchVars>>
    /\ UNCHANGED <<attempts, input_before, copy_pos, copied, copy_skipped, copy_failed>>

\* "No EPUB files found": retry or abort
AskNoMatch(retry) ==
    /\ pc = "scanned"
    /\ found_files = <<>>
    /\ AnswerRetry(retry)
    /\ UNCHANGED <<fn, run, prev, probe, display, fsVars, batchVars>>

\* the preview is shown and the user does not confirm the copy
AskDeclined(retry) ==
    /\ pc = "scanned"
    /\ found_files # <<>>
    /\ AnswerRetry(retry)
    /\ UNCHANGED <<fn, run, prev, probe, display, fsVars, batchVars>>

\* the preview is shown and the user confirms the copy
AskConfirmed ==
    /\ pc = "scanned"
    /\ found_files # <<>>
    /\ pc' = "copy"
    /\ copy_pos' = 0
    /\ copied' = 0
    /\ copy_skipped' = 0
    /\ copy_failed' = 0
    /\ UNCHANGED <<fn, run, prev, exitCode, probe, display, import_ret, fsVars, batchVars>>
    /\ UNCHANGED <<attempts, input_before, source_dir, found_files>>

\* a slip: the destination is never found to exist
DestExists_never(filename, dir) == FALSE

\* exists(dest_path)
DestExists(filename, dir) == filename \in DOMAIN dir

CopyStep ==
    /\ pc = "copy"
    /\ copy_pos < Len(found_files)
    /\ copy_pos' = copy_pos + 1
    /\ UNCHANGED <<fn, pc, run, prev, exitCode, probe, display, import_ret, outputDir, batchVars>>
    /\ UNCHANGED <<attempts, input_before, source_dir, found_files>>

\* the destination exists: skipped, nothing written
CopySkip ==
    /\ CopyStep
    /\ DestExists(found_files[copy_pos + 1], inputDir)
    /\ copy_skipped' = copy_skipped + 1
    /\ UNCHANGED <<inputDir, copied, copy_failed>>

\* shutil.copy2 succeeds
CopyOK ==
    /\ CopyStep
    /\ ~DestExists(found_files[copy_pos + 1], inputDir)
    /\ inputDir' = (found_files[copy_pos + 1] :> "new") @@ inputDir
    /\ copied' = copied + 1
    /\ UNCHANGED <<copy_skipped, copy_failed>>

\* shutil.copy2 raises; it may have created the destination already
CopyFail(partial) ==
    /\ CopyStep
    /\ ~DestExists(found_files[copy_pos + 1], inputDir)
    /\ inputDir' = IF partial THEN (found_files[copy_pos + 1] :> "part") @@ inputDir ELSE inputDir
    /\ copy_failed' = copy_failed + 1
    /\ UNCHANGED <<copied, copy_skipped>>

\* a slip: the importer reports an abort after copying
CopyPhaseResult_false == "False"

\* the value returned after the copy loop
CopyPhaseResult == "True"

\* "Press Enter to start conversion...", return
CopyDone ==
    /\ pc = "copy"
    /\ copy_pos = Len(found_files)
    /\ ImporterReturns(CopyPhaseResult)
    /\ UNCHANGED <<fn, run, prev, probe, display, fsVars, batchVars>>


\* ------------------------------------------------------------------------
\* main: probe, listing, the loop over epub_files
\* ------------------------------------------------------------------------

\* the log keeps this many lines
LogKeep == 9

\* add_log: append, drop the oldest line beyond LogKeep (the time stamp of a
\* line is left out)
add_log(lines, message) ==
    LET l == Append(lines, message)
    IN  IF Len(l) > LogKeep THEN Tail(l) ELSE l

\* the files of seq whose extension is "epub", in the order of seq
RECURSIVE FilterEpub(_)
FilterEpub(seq) ==
    IF seq = <<>> THEN <<>>
    ELSE IF get_file_extension(Head(seq)) = EPUB
         THEN <<Head(seq)>> \o FilterEpub(Tail(seq))
         ELSE FilterEpub(Tail(seq))

\* a slip: a list of one file is taken for an empty one
NoEpubFiles_one(files) == Len(files) <= 1

\* "if not epub_files"
NoEpubFiles(files) == files = <<>>

\* a slip: the check is lost and every file is converted
AlreadyConverted_never(name, listing) == FALSE

\* "final_file_name in converted_files"
AlreadyConverted(name, listing) == name \in listing

\* a slip: "continue" is reached before processed is counted
processed_after_skip_lost(n) == n

\* "processed += 1" of the skip branch
processed_after_skip(n) == n + 1

\* a slip: the return code is tested the wrong way round
Classify_inverted(outcome) ==
    CASE outcome = "exit0" -> "Failed"
      [] outcome = "nonzero" -> "Success"
      [] outcome = "timeout" -> "Timeout"
      [] outcome = "spawn_error" -> "Error"

\* the branch of the try statement an invocation's outcome ends in
Classify(outcome) ==
    CASE outcome = "exit0" -> "Success"
      [] outcome = "nonzero" -> "Failed"
      [] outcome = "timeout" -> "Timeout"
      [] outcome = "spawn_error" -> "Error"

\* a slip: the timeout handler does not count the file
failed_after_no_timeout(kind, n) == IF kind \in {"Failed", "Error"} THEN n + 1 ELSE n

\* "failed += 1" of the three failure branches
failed_after(kind, n) == IF kind \in {"Failed", "Timeout", "Error"} THEN n + 1 ELSE n

\* "successful += 1"
successful_after(kind, n) == IF kind = "Success" THEN n + 1 ELSE n

\* main's probe fails: the error is shown, main returns and the script ends
MainToolMissing ==
    /\ pc = "main"
    /\ probe' = "missing"
    /\ display' = "ToolCheckFailed"
    /\ pc' = "exit"
    /\ exitCode' = 0
    /\ UNCHANGED <<fn, run, prev, import_ret, fsVars, importVars, batchVars>>

\* main's probe succeeds: header and directories are drawn
MainHeader ==
    /\ pc = "main"
    /\ probe' = "ok"
    /\ display' = "Listing"
    /\ pc' = "listing"
    /\ UNCHANGED <<fn, run, prev, exitCode, import_ret, fsVars, importVars, batchVars>>

\* listdir raises
ListError ==
    /\ pc = "listing"
    /\ listed' = TRUE
    /\ display' = "ListError"
    /\ pc' = "exit"
    /\ exitCode' = 0
    /\ UNCHANGED <<fn, run, prev, probe, import_ret, fsVars, importVars>>
    /\ UNCHANGED <<epub_files, converted_files, total_files, visited, processed, successful, skipped, failed, calls, log_lines>>

\* both directories are listed and no file has the extension
ListNoFiles(raw_files) ==
    /\ pc = "listing"
    /\ raw_files \in Perms(DOMAIN inputDir)
    /\ NoEpubFiles(FilterEpub(raw_files))
    /\ listed' = TRUE
    /\ epub_files' = FilterEpub(raw_files)
    /\ display' = "NoFilesFound"
    /\ pc' = "exit"
    /\ exitCode' = 0
    /\ UNCHANGED <<fn, run, prev, probe, import_ret, fsVars, importVars>>
    /\ UNCHANGED <<converted_files, total_files, visited, processed, successful, skipped, failed, calls, log_lines>>

\* both directories are listed, the counters are set up
ListFound(raw_files) ==
    /\ pc = "listing"
    /\ raw_files \in Perms(DOMAIN inputDir)
    /\ ~NoEpubFiles(FilterEpub(raw_files))
    /\ listed' = TRUE
    /\ epub_files' = FilterEpub(raw_files)
    /\ converted_files' = outputDir
    /\ total_files' = Len(FilterEpub(raw_files))
    /\ processed' = 0
    /\ successful' = 0
    /\ skipped' = 0
    /\ failed' = 0
    /\ pc' = "loop"
    /\ UNCHANGED <<fn, run, prev, exitCode, probe, display, import_ret, fsVars, importVars>>
    /\ UNCHANGED <<visited, calls, log_lines>>

\* the for-loop takes its next file and shows it
TakeFile ==
    /\ pc = "loop"
    /\ Len(visited) < Len(epub_files)
    /\ visited' = Append(visited, epub_files[Len(visited) + 1])
    /\ display' = "Processing"
    /\ UNCHANGED <<fn, pc, run, prev, exitCode, probe, import_ret, inputDir, importVars>>
    /\ UNCHANGED <<listed, epub_files, converted_files, total_files>>

\* one iteration: the output is in the listing
ProcessSkip ==
    /\ TakeFile
    /\ LET f == epub_files[Len(visited) + 1]
           final_file_name == get_final_filename(f)
       IN  /\ AlreadyConverted(final_file_name, converted_files)
           /\ log_lines' = add_log(log_lines, <<"Skipped", final_file_name>>)
           /\ skipped' = skipped + 1
           /\ processed' = processed_after_skip(processed)
    /\ UNCHANGED <<outputDir, successful, failed, calls>>

\* one iteration: the converter is invoked.  A run that exits zero has written
\* its output file; one that fails or is killed at the timeout may have left
\* one; one that could not be spawned has not.
ProcessConvert(outcome, wrote) ==
    /\ TakeFile
    /\ outcome = "exit0" => wrote
    /\ outcome = "spawn_error" => ~wrote
    /\ LET f == epub_files[Len(visited) + 1]
           final_file_name == get_final_filename(f)
           kind == Classify(outcome)
       IN  /\ ~AlreadyConverted(final_file_name, converted_files)
           /\ calls' = Append(calls, [src |-> f, dst |-> final_file_name, outcome |-> outcome])
           /\ outputDir' = IF wrote THEN outputDir \cup {final_file_name} ELSE outputDir
           /\ log_lines' = add_log(add_log(log_lines, <<"Converting", f>>),
                                   <<kind, IF kind = "Success" THEN final_file_name ELSE f>>)
           /\ successful' = successful_after(kind, successful)
           /\ failed' = failed_after(kind, failed)
           /\ processed' = processed + 1
    /\ UNCHANGED skipped

\* after the loop: final bar, final counts, "Conversion complete!"
Complete ==
    /\ pc = "loop"
    /\ Len(visited) = Len(epub_files)
    /\ display' = "Complete"
    /\ pc' = "exit"
    /\ exitCode' = 0
    /\ UNCHANGED <<fn, run, prev, probe, import_ret, fsVars, importVars, batchVars>>

\* the program is started again over the same two directories
Restart ==
    /\ pc = "exit"
    /\ run = 1
    /\ run' = 2
    /\ prev' = [display |-> display, eligible |-> Range(epub_files),
                successful |-> successful, failed |-> failed]
    /\ pc' = "start"
    /\ exitCode' = -1
    /\ probe' = "none"
    /\ display' = "Idle"
    /\ import_ret' = "none"
    /\ attempts' = 0
    /\ input_before' = <<>>
    /\ source_dir' = {}
    /\ found_files' = <<>>
    /\ copy_pos' = 0
    /\ copied' = 0
    /\ copy_skipped' = 0
    /\ copy_failed' = 0
    /\ listed' = FALSE
    /\ epub_files' = <<>>
    /\ converted_files' = {}
    /\ total_files' = 0
    /\ visited' = <<>>
    /\ processed' = 0
    /\ successful' = 0
    /\ skipped' = 0
    /\ failed' = 0
    /\ calls' = <<>>
    /\ log_lines' = <<>>
    /\ UNCHANGED <<fn, fsVars>>

Retries == {"y", "n"}

Outcomes == {"exit0", "nonzero", "timeout", "spawn_error"}

Next ==
    \/ StartToolMissing
    \/ StartToolFound
    \/ AskEmpty
    \/ \E retry \in Retries : AskMissing(retry)
    \/ \E retry \in Retries : AskNotDir(retry)
    \/ \E dir \in AtMost(FileNames, MaxSource) :
         \E lo \in Perms({n \in dir : glob_match(n, EPUB)}) :
           \E up \in Perms({n \in dir : glob_match(n, EPUB_UPPER)}) : AskScan(dir, lo, up)
    \/ \E retry \in Retries : AskNoMatch(retry)
    \/ \E retry \in Retries : AskDeclined(retry)
    \/ AskConfirmed
    \/ CopySkip
    \/ CopyOK
    \/ \E partial \in BOOLEAN : CopyFail(partial)
    \/ CopyDone
    \/ MainToolMissing
    \/ MainHeader
    \/ ListError
    \/ \E raw \in Perms(DOMAIN inputDir) : ListNoFiles(raw)
    \/ \E raw \in Perms(DOMAIN inputDir) : ListFound(raw)
    \/ ProcessSkip
    \/ \E outcome \in Outcomes : \E wrote \in BOOLEAN : ProcessConvert(outcome, wrote)
    \/ Complete

\* one run of the program, from the entry block to its exit
Spec == Init /\ [][Next]_vars

\* two runs in succession over the same directories, the user pressing Enter
\* at the importer's prompt each time (nothing is added between the runs)
NextRerun ==
    \/ StartToolMissing
    \/ StartToolFound
    \/ AskEmpty
    \/ MainToolMissing
    \/ MainHeader
    \/ ListError
    \/ \E raw \in Perms(DOMAIN inputDir) : ListNoFiles(raw)
    \/ \E raw \in Perms(DOMAIN inputDir) : ListFound(raw)
    \/ ProcessSkip
    \/ \E outcome \in Outcomes : \E wrote \in BOOLEAN : ProcessConvert(outcome, wrote)
    \/ Complete
    \/ Restart

SpecRerun == Init /\ [][NextRerun]_vars


\* one run in which the user presses Enter at the importer's prompt: the
\* Batch Runner over every input and output directory of Init
NextBatch ==
    \/ StartToolMissing
    \/ StartToolFound
    \/ AskEmpty
    \/ MainToolMissing
    \/ MainHeader
    \/ ListError
    \/ \E raw \in Perms(DOMAIN inputDir) : ListNoFiles(raw)
    \/ \E raw \in Perms(DOMAIN inputDir) : ListFound(raw)
    \/ ProcessSkip
    \/ \E outcome \in Outcomes : \E wrote \in BOOLEAN : ProcessConvert(outcome, wrote)
    \/ Complete

SpecBatch == Init /\ [][NextBatch]_vars

\* one step of the loop of main, or the step that leaves it
LoopStep ==
    \/ ProcessSkip
    \/ \E outcome \in Outcomes : \E wrote \in BOOLEAN : ProcessConvert(outcome, wrote)
    \/ Complete

\* ------------------------------------------------------------------------
\* The filename helpers applied to generated names
\* ------------------------------------------------------------------------

InitFn ==
    /\ fn \in {[f |-> f, op |-> "none", res |-> <<>>] : f \in GenNames}
    /\ run = 1
    /\ prev = NoPrev
    /\ inputDir = <<>>
    /\ outputDir = {}
    /\ Fresh

FnOthersUnchanged ==
    UNCHANGED <<pc, run, prev, exitCode, probe, display, import_ret, fsVars, importVars, batchVars>>

FnDerive ==
    /\ fn.op = "none"
    /\ fn' = [fn EXCEPT !.op = "derive", !.res = get_final_filename(fn.f)]
    /\ FnOthersUnchanged

FnExtension ==
    /\ fn.op = "none"
    /\ fn' = [fn EXCEPT !.op = "extension", !.res = get_file_extension(fn.f)]
    /\ FnOthersUnchanged

FnGlob ==
    /\ fn.op = "none"
    /\ fn' = [fn EXCEPT !.op = "glob",
                        !.res = <<glob_match(fn.f, EPUB), glob_match(fn.f, EPUB_UPPER)>>]
    /\ FnOthersUnchanged

NextFn == FnDerive \/ FnExtension \/ FnGlob

SpecFn == InitFn /\ [][NextFn]_vars


\* ------------------------------------------------------------------------
\* Properties
\* ------------------------------------------------------------------------

Count(seq, P(_)) == Cardinality({i \in 1..Len(seq) : P(seq[i])})

IsExitZero(call) == call.outcome = "exit0"

IsNotExitZero(call) == call.outcome # "exit0"

\* the derived name of f, by position: all that precedes the last dot
LastDot(f) == IF \E i \in 1..Len(f) : f[i] = "."
              THEN CHOOSE i \in 1..Len(f) : f[i] = "." /\ \A j \in (i + 1)..Len(f) : f[j] # "."
              ELSE 0

BeforeLastDot(f) == [i \in 1..(LastDot(f) - 1) |-> f[i]]

\* f's derived name is in the listing of the output directory
InListing(f) == BeforeLastDot(f) \o AZW3 \in converted_files

NotInListing(f) == ~InListing(f)

\* the names of dir whose last segment is "epub" in any mix of cases
Eligible(dir) == {n \in dir : \E i \in 1..Len(n) :
                     /\ \A j \in i..Len(n) : n[j] # "."
                     /\ i > 1 => n[i - 1] = "."
                     /\ Len(n) - i + 1 = 4
                     /\ n[i] \in {"e", "E"} /\ n[i + 1] \in {"p", "P"}
                     /\ n[i + 2] \in {"u", "U"} /\ n[i + 3] \in {"b", "B"}}

\* C1: in the loop of main and after it, processed equals successful +
\* skipped + failed, and is the number of files the loop has handled.
C1_CountersBalanced ==
    /\ processed = successful + skipped + failed
    /\ pc \in {"loop", "exit"} => processed = Len(visited)

C1_Witness ==
    /\ display = "Complete"
    /\ skipped = 1
    /\ failed = 1
    /\ processed = 2

\* C2: the loop takes the eligible files in listing order; a file whose
\* derived name is in the output listing is counted as skipped and not
\* converted; every other file is converted exactly once, to its derived name,
\* and counted as successful exactly when the converter exits zero, else as
\* failed.  With a.epub, b.epub, output b.azw3 and a succeeding converter the
\* run ends with successful 1, skipped 1, failed 0, processed 2.
C2_SkipOrConvertOnce ==
    /\ visited = SubSeq(epub_files, 1, Len(visited))
    /\ [i \in 1..Len(calls) |-> calls[i].src] = SelectSeq(visited, NotInListing)
    /\ \A i \in 1..Len(calls) : calls[i].dst = BeforeLastDot(calls[i].src) \o AZW3
    /\ skipped = Count(visited, InListing)
    /\ successful = Count(calls, IsExitZero)
    /\ failed = Count(calls, IsNotExitZero)
    /\ ( /\ display = "Complete"
         /\ Range(epub_files) = {A_EPUB, B_EPUB}
         /\ converted_files = {<<"b">> \o AZW3}
         /\ \A i \in 1..Len(calls) : calls[i].outcome = "exit0" )
       => /\ successful = 1 /\ skipped = 1 /\ failed = 0 /\ processed = 2
          /\ <<"a">> \o AZW3 \in outputDir

C2_Witness ==
    /\ display = "Complete"
    /\ Range(epub_files) = {A_EPUB, B_EPUB}
    /\ converted_files = {<<"b">> \o AZW3}
    /\ Len(calls) = 1
    /\ calls[1] = [src |-> A_EPUB, dst |-> <<"a">> \o AZW3, outcome |-> "exit0"]
    /\ successful = 1
    /\ skipped = 1

ResultLine(call) ==
    CASE call.outcome = "exit0" -> <<"Success", call.dst>>
      [] call.outcome = "nonzero" -> <<"Failed", call.src>>
      [] call.outcome = "timeout" -> <<"Timeout", call.src>>
      [] call.outcome = "spawn_error" -> <<"Error", call.src>>

\* C4: a converter run that times out, exits non-zero or cannot be spawned
\* counts its file as failed once, a timeout being logged as a timeout; the
\* loop can always go on, with the next file or to its end, and a run that
\* entered the loop ends with every listed file visited once, in order, and
\* processed = total.
C4_FailuresDoNotHalt ==
    /\ failed = Count(calls, IsNotExitZero)
    /\ ( /\ calls # <<>>
         /\ visited # <<>>
         /\ calls[Len(calls)].src = visited[Len(visited)]
         /\ NotInListing(visited[Len(visited)]) )
       => log_lines[Len(log_lines)] = ResultLine(calls[Len(calls)])
    /\ (pc = "exit" /\ epub_files # <<>>)
       => /\ display = "Complete"
          /\ visited = epub_files
          /\ processed = total_files
          /\ total_files = Len(epub_files)
    /\ pc = "loop" => /\ ENABLED LoopStep
                      /\ Len(visited) <= Len(epub_files)
                      /\ visited = SubSeq(epub_files, 1, Len(visited))

C4_Witness ==
    /\ display = "Complete"
    /\ Len(calls) = 2
    /\ calls[1].outcome = "timeout"
    /\ calls[2].outcome = "exit0"
    /\ failed = 1
    /\ successful = 1
    /\ processed = 2

C5_Counts ==
    pc = "copy" =>
        /\ copied + copy_skipped + copy_failed = copy_pos
        /\ copy_pos <= Len(found_files)

C5_Frame ==
    (pc = "copy" /\ copy_pos' = copy_pos + 1) =>
        LET f == found_files[copy_pos + 1]
        IN  /\ \A n \in DOMAIN inputDir : n \in DOMAIN inputDir' /\ inputDir'[n] = inputDir[n]
            /\ f \in DOMAIN inputDir =>
                 copy_skipped' = copy_skipped + 1 /\ copied' = copied /\ inputDir' = inputDir
            /\ copied' = copied + 1 =>
                 f \notin DOMAIN inputDir /\ inputDir'[f] = "new"

\* C5: the copy loop leaves every file that is in the input directory as it
\* is: a matched file whose name is there is counted as skipped, only a file
\* whose name is not there is copied, and copied + skipped + failed is the
\* number of matched files handled (all of them when the loop ends).
C5_NoOverwrite == []C5_Counts /\ [][C5_Frame]_vars

C5_Witness ==
    /\ pc = "copy"
    /\ copy_pos = Len(found_files)
    /\ copy_skipped = 1
    /\ copied = 1
    /\ \E n \in DOMAIN inputDir : inputDir[n] = "old" /\ n \in Range(found_files)
    /\ \E n \in DOMAIN inputDir : inputDir[n] = "new"

\* C6: when a probe of the converter fails, the process exits with a non-zero
\* status, no directory has been listed and no conversion has been started.
C6_ToolMissingExitsNonZero ==
    (pc = "exit" /\ probe = "missing") =>
        /\ exitCode # 0
        /\ ~listed
        /\ calls = <<>>

\* C7: get_final_filename(f) is all of f that precedes its last dot, followed
\* by ".azw3" (and ".azw3" alone when f has no dot).
C7_DerivedName ==
    fn.op = "derive" => fn.res = BeforeLastDot(fn.f) \o AZW3

C7_Witness ==
    /\ fn.op = "derive"
    /\ fn.f = <<"a", ".", "a">> \o Dot \o EPUB
    /\ fn.res = <<"a", ".", "a">> \o AZW3

\* C8: the importer's scan finds exactly the files of the directory whose
\* extension is "epub" in any mix of cases, and offers retry-or-abort when
\* there is none.
C8_ScanCaseInsensitive ==
    pc = "scanned" => Range(found_files) = Eligible(source_dir)

C9_Inv ==
    import_ret = "False" => /\ inputDir = input_before
                            /\ exitCode = 0

C9_Step ==
    /\ (pc = "ask" /\ pc' = "main") => import_ret' = "True" /\ inputDir' = inputDir
    /\ (pc \in {"ask", "scanned"} /\ pc' = "exit") => import_ret' = "False"
    /\ (pc \in {"ask", "scanned"} /\ pc' \notin {"main", "copy"}) => inputDir' = inputDir

\* C9: whenever the importer returns False, the input directory is as it was
\* when the importer was called; a declined retry returns False, and empty
\* input returns True with nothing copied.
C9_AbortCopiesNothing == []C9_Inv /\ [][C9_Step]_vars

C9_Witness ==
    /\ import_ret = "False"
    /\ pc = "exit"
    /\ inputDir = input_before
    /\ DOMAIN inputDir # {}

MainEnded == pc = "exit" /\ import_ret = "True"

\* C10 as claimed: the display is in one of the six states, and main ends in
\* ToolCheckFailed, NoFilesFound or Complete.
C10_Original ==
    /\ display \in {"Idle", "ToolCheckFailed", "Listing", "NoFilesFound", "Processing", "Complete"}
    /\ MainEnded => display \in {"ToolCheckFailed", "NoFilesFound", "Complete"}

DisplayEdges ==
    {<<"Idle", "ToolCheckFailed">>, <<"Idle", "Listing">>, <<"Listing", "ListError">>,
     <<"Listing", "NoFilesFound">>, <<"Listing", "Processing">>,
     <<"Processing", "Complete">>}

C10_Inv ==
    /\ MainEnded => display \in {"ToolCheckFailed", "ListError", "NoFilesFound", "Complete"}
    /\ display = "Complete" => Len(visited) = Len(epub_files) /\ Len(visited) = Cardinality(Eligible(DOMAIN inputDir))
    /\ display = "NoFilesFound" => Eligible(DOMAIN inputDir) = {}
    /\ display \in {"Processing", "Complete"} => Eligible(DOMAIN inputDir) # {}

C10_Step ==
    /\ display' # display => <<display, display'>> \in DisplayEdges
    /\ (display' = "Processing" /\ visited' = visited) => display = "Processing"

\* C10 amended: the display follows Idle -> ToolCheckFailed, or Idle ->
\* Listing -> (ListError | NoFilesFound | Processing* -> Complete); main ends
\* in one of these four terminal states, Complete after Processing has been
\* entered once for each eligible file, NoFilesFound only when there is none.
C10_DisplayMachine == []C10_Inv /\ [][C10_Step]_vars

C10_Witness ==
    /\ display = "Complete"
    /\ Len(visited) = 2
    /\ MainEnded

====
